---- MODULE Spec2Model ----
(***************************************************************************)
(* Model of week1/src/clabby.rs: the lexer `lex`, the tree builder         *)
(* `build_fs` and the size queries `FSEntry::size` and                     *)
(* `FSEntry::prunable_size`.                                               *)
(*                                                                         *)
(* A string is a sequence of one-character strings, so that `split`,       *)
(* `split_whitespace`, `starts_with`, `trim` and `parse::<usize>` are      *)
(* computed on characters as the library computes them.  Option<T> is a    *)
(* sequence of length at most one: None is <<>>, Some(x) is <<x>>.         *)
(* Rc<RefCell<FSEntry>> handles are indices into the heap `entries`.       *)
(***************************************************************************)
EXTENDS Integers, Sequences, FiniteSets, TLC

VARIABLES
    input,             \* lex: the `input: &str` argument
    lines,             \* lex: `lines`, the VecDeque of lines still to read
    command,           \* lex: `command`, the line popped by the outer loop
    output,            \* lex: `output`, the lines gathered for `command`
    commands,          \* lex: `commands`, the VecDeque that lex returns
    lex_result,        \* "pending", "Ok" or the &'static str of the Err
    cmds,              \* build_fs: the `cmds` argument, consumed from the front
    entries,           \* the heap of FSEntry values behind the Rc handles
    root_context,      \* build_fs: handle of the root entry (0: not created)
    current_context,   \* build_fs: handle of the current position
    depth,             \* build_fs: `depth`
    entries_at_depth,  \* build_fs: HashMap<usize, SharedFSEntry>
    ls_output,         \* build_fs: output lines of the running `for o in ..`
    build_result,      \* "pending", "Ok" or the &'static str of the Err
                       \* (its back quotes written as single quotes)
    query,             \* the last size query made on the built tree
    pc                 \* position in the pipeline lex -> build_fs -> queries

vars == <<input, lines, command, output, commands, lex_result, cmds, entries,
          root_context, current_context, depth, entries_at_depth, ls_output,
          build_result, query, pc>>

lexVars == <<input, lines, command, output, commands, lex_result>>

buildVars == <<cmds, entries, root_context, current_context, depth,
               entries_at_depth, ls_output, build_result>>

(***************************************************************************)
(* Bounds of the checked instances.                                        *)
(***************************************************************************)
\* longest transcript, in lines, that Init feeds to lex
MaxLines == 3

\* longest command sequence that InitBuild feeds to build_fs
MaxCmds == 5

(***************************************************************************)
(* Program constants.                                                      *)
(***************************************************************************)
PUZZLE_INPUT ==
    <<"\n">>
    \o <<"$", " ", "c", "d", " ", "/", "\n">>
    \o <<"$", " ", "l", "s", "\n">>
    \o <<"d", "i", "r", " ", "a", "\n">>
    \o <<"1", "4", "8", "4", "8", "5", "1", "4", " ", "b", ".", "t", "x", "t", "\n">>
    \o <<"8", "5", "0", "4", "1", "5", "6", " ", "c", ".", "d", "a", "t", "\n">>
    \o <<"d", "i", "r", " ", "d", "\n">>
    \o <<"$", " ", "c", "d", " ", "a", "\n">>
    \o <<"$", " ", "l", "s", "\n">>
    \o <<"d", "i", "r", " ", "e", "\n">>
    \o <<"2", "9", "1", "1", "6", " ", "f", "\n">>
    \o <<"2", "5", "5", "7", " ", "g", "\n">>
    \o <<"6", "2", "5", "9", "6", " ", "h", ".", "l", "s", "t", "\n">>
    \o <<"$", " ", "c", "d", " ", "e", "\n">>
    \o <<"$", " ", "l", "s", "\n">>
    \o <<"5", "8", "4", " ", "i", "\n">>
    \o <<"$", " ", "c", "d", " ", ".", ".", "\n">>
    \o <<"$", " ", "c", "d", " ", ".", ".", "\n">>
    \o <<"$", " ", "c", "d", " ", "d", "\n">>
    \o <<"$", " ", "l", "s", "\n">>
    \o <<"4", "0", "6", "0", "1", "7", "4", " ", "j", "\n">>
    \o <<"8", "0", "3", "3", "0", "2", "0", " ", "d", ".", "l", "o", "g", "\n">>
    \o <<"5", "6", "2", "6", "1", "5", "2", " ", "d", ".", "e", "x", "t", "\n">>
    \o <<"7", "2", "1", "4", "2", "9", "6", " ", "k", "\n">>

CMD_DELIMITER == "$"

NEWLINE == "\n"

CD == <<"c", "d">>

LS == <<"l", "s">>

PARENT_DIR == <<".", ".">>

\* the literal 100_000 of prunable_size
PRUNE_LIMIT == 100000

\* test::MAGIC_NUMBER
MAGIC_NUMBER == 95437

(***************************************************************************)
(* Option and Result values.                                               *)
(***************************************************************************)
None == <<>>

Some(x) == <<x>>

is_some(o) == Len(o) = 1

unwrap(o) == o[1]

\* Result<CommandKind, &'static str>
Ok(v) == [ok |-> TRUE, val |-> v, err |-> ""]

Err(e) == [ok |-> FALSE, val |-> [tag |-> "", arg |-> <<>>], err |-> e]

\* CommandKind::Cd(String) and CommandKind::Ls
Cd(name) == [tag |-> "Cd", arg |-> name]

Ls == [tag |-> "Ls", arg |-> <<>>]

\* struct Command
Command(kind, out) == [kind |-> kind, output |-> out]

(***************************************************************************)
(* The string functions of the standard library that the program calls.    *)
(***************************************************************************)
Min(S) == CHOOSE x \in S : \A y \in S : x <= y

\* char::is_whitespace, on the characters the inputs use
is_whitespace(c) == c \in {" ", "\t", "\n", "\r"}

\* str::starts_with(char)
starts_with(s, c) == Len(s) > 0 /\ s[1] = c

\* str::split(char): n separators cut the string into n + 1 pieces
RECURSIVE split(_, _)
split(s, sep) ==
    LET at == {i \in 1..Len(s) : s[i] = sep}
    IN  IF at = {}
        THEN <<s>>
        ELSE <<SubSeq(s, 1, Min(at) - 1)>>
                 \o split(SubSeq(s, Min(at) + 1, Len(s)), sep)

\* str::split_whitespace: the maximal runs of non-whitespace characters
RECURSIVE split_whitespace(_)
split_whitespace(s) ==
    IF s = <<>>
    THEN <<>>
    ELSE IF is_whitespace(s[1])
    THEN split_whitespace(Tail(s))
    ELSE LET stops == {i \in 1..Len(s) : is_whitespace(s[i])}
             end   == IF stops = {} THEN Len(s) + 1 ELSE Min(stops)
         IN  <<SubSeq(s, 1, end - 1)>>
                 \o split_whitespace(SubSeq(s, end, Len(s)))

\* str::trim: drops the leading and the trailing whitespace
RECURSIVE trim(_)
trim(s) ==
    IF s = <<>>
    THEN s
    ELSE IF is_whitespace(s[1])
    THEN trim(Tail(s))
    ELSE IF is_whitespace(s[Len(s)])
    THEN trim(SubSeq(s, 1, Len(s) - 1))
    ELSE s

Digits == <<"0", "1", "2", "3", "4", "5", "6", "7", "8", "9">>

digit_value(c) == (CHOOSE i \in 1..10 : Digits[i] = c) - 1

is_digit(c) == \E i \in 1..10 : Digits[i] = c

RECURSIVE decimal_value(_)
decimal_value(ds) ==
    IF ds = <<>>
    THEN 0
    ELSE 10 * decimal_value(SubSeq(ds, 1, Len(ds) - 1))
             + digit_value(ds[Len(ds)])

\* str::parse::<usize>().ok(): an optional '+' and then one or more decimal
\* digits; anything else is None.  (The inputs stay far below usize::MAX.)
parse_usize(tok) ==
    LET ds == IF starts_with(tok, "+") THEN Tail(tok) ELSE tok
    IN  IF ds # <<>> /\ \A i \in 1..Len(ds) : is_digit(ds[i])
        THEN Some(decimal_value(ds))
        ELSE None

(***************************************************************************)
(* impl TryFrom<String> for CommandKind                                    *)
(***************************************************************************)
\* try_from that lets `cd` without a target through, as Cd("")
try_from_no_target(value) ==
    LET split_ == split_whitespace(value)
    IN  IF Len(split_) < 2
        THEN Err("Failed to parse command")
        ELSE IF split_[2] = CD
        THEN IF Len(split_) < 3
             THEN Ok(Cd(<<>>))
             ELSE Ok(Cd(split_[3]))
        ELSE IF split_[2] = LS
        THEN Ok(Ls)
        ELSE Err("Invalid command")

try_from(value) ==
    LET split_ == split_whitespace(value)
    IN  IF Len(split_) < 2
        THEN Err("Failed to parse command")
        ELSE IF split_[2] = CD
        THEN IF Len(split_) < 3
             THEN Err("Failed to parse command arguments")
             ELSE Ok(Cd(split_[3]))
        ELSE IF split_[2] = LS
        THEN Ok(Ls)
        ELSE Err("Invalid command")

(***************************************************************************)
(* struct FSEntry and its size queries.                                    *)
(***************************************************************************)
FSEntry_new(name, children, implicit_size) ==
    [name |-> name, children |-> children, implicit_size |-> implicit_size]

\* Iterator::sum
RECURSIVE sum(_)
sum(xs) == IF xs = <<>> THEN 0 ELSE Head(xs) + sum(Tail(xs))

\* size that adds up the files directly in a directory, without descending
size_direct_files(e) ==
    IF is_some(entries[e].implicit_size)
    THEN unwrap(entries[e].implicit_size)
    ELSE IF is_some(entries[e].children)
    THEN LET children == unwrap(entries[e].children)
         IN  sum([i \in 1..Len(children) |->
                      IF is_some(entries[children[i]].implicit_size)
                      THEN unwrap(entries[children[i]].implicit_size)
                      ELSE 0])
    ELSE 0

\* FSEntry::size, on the entry behind handle e
RECURSIVE size(_)
size(e) ==
    IF is_some(entries[e].implicit_size)
    THEN unwrap(entries[e].implicit_size)
    ELSE IF is_some(entries[e].children)
    THEN LET children == unwrap(entries[e].children)
         IN  sum([i \in 1..Len(children) |-> size(children[i])])
    ELSE 0

\* prunable_size with the `c.children.is_some()` test of the filter left out
RECURSIVE prunable_size_any_child(_)
prunable_size_any_child(e) ==
    IF is_some(entries[e].children)
    THEN LET children == unwrap(entries[e].children)
             kept == SelectSeq(children, LAMBDA c : size(c) <= PRUNE_LIMIT)
         IN  sum([i \in 1..Len(kept) |->
                      size(kept[i]) + prunable_size_any_child(kept[i])])
    ELSE 0

\* prunable_size with `<` in place of `<=`
RECURSIVE prunable_size_strict(_)
prunable_size_strict(e) ==
    IF is_some(entries[e].children)
    THEN LET children == unwrap(entries[e].children)
             kept == SelectSeq(children,
                         LAMBDA c : size(c) < PRUNE_LIMIT
                                    /\ is_some(entries[c].children))
         IN  sum([i \in 1..Len(kept) |->
                      size(kept[i]) + prunable_size_strict(kept[i])])
    ELSE 0

\* FSEntry::prunable_size, on the entry behind handle e
RECURSIVE prunable_size(_)
prunable_size(e) ==
    IF is_some(entries[e].children)
    THEN LET children == unwrap(entries[e].children)
             kept == SelectSeq(children,
                         LAMBDA c : size(c) <= PRUNE_LIMIT
                                    /\ is_some(entries[c].children))
         IN  sum([i \in 1..Len(kept) |->
                      size(kept[i]) + prunable_size(kept[i])])
    ELSE 0

(***************************************************************************)
(* HashMap<usize, SharedFSEntry>                                           *)
(***************************************************************************)
EmptyMap == [k \in {} |-> 0]

insert(m, k, v) == [x \in DOMAIN m \cup {k} |-> IF x = k THEN v ELSE m[x]]

get(m, k) == IF k \in DOMAIN m THEN Some(m[k]) ELSE None

(***************************************************************************)
(* The inputs of the checked instances.                                    *)
(***************************************************************************)
\* the lines the transcripts of Init are made of
LinePool ==
    { <<"$", " ", "c", "d", " ", "a">>,
      <<"$", " ", "c", "d", " ", ".", ".">>,
      <<"$", " ", "l", "s">>,
      <<"$", " ", "l", "s", " ", "-", "l">>,
      <<"$", " ", "c", "d">>,
      <<"$", " ", "r", "m", " ", "a">>,
      <<"$">>,
      <<>>,
      <<"1", " ", "g">>,
      <<"d", "i", "r", " ", "a">>,
      <<"x", " ", "l", "s">> }

\* [T]::join(sep)
RECURSIVE join(_, _)
join(ls, sep) ==
    IF Len(ls) = 0
    THEN <<>>
    ELSE IF Len(ls) = 1
    THEN ls[1]
    ELSE ls[1] \o <<sep>> \o join(Tail(ls), sep)

\* every transcript of 1..MaxLines pool lines, and the puzzle input as
\* test_solution passes it
Inputs ==
    { join(ls, NEWLINE) :
          ls \in UNION { [1..n -> LinePool] : n \in 1..MaxLines } }
    \cup { trim(PUZZLE_INPUT) }

\* the commands the sequences of InitBuild are made of
CmdPool ==
    { Command(Cd(<<"a">>), <<>>),
      Command(Cd(PARENT_DIR), <<>>),
      Command(Ls, << <<"1", "0", "0", "0", "0", "0", " ", "f">> >>),
      Command(Ls, << <<"1", " ", "g">> >>),
      Command(Ls, << <<"d", "i", "r", " ", "a">>,
                     <<"1", " ", "f", " ", "x">> >>),
      Command(Ls, << <<"1", " ", "g">>, <<>> >>),
      Command(Ls, << <<"f">> >>) }

CmdSeqs == UNION { [1..n -> CmdPool] : n \in 0..MaxCmds }

NoQuery == [fn |-> "none", entry |-> 0, value |-> 0]

(***************************************************************************)
(* Initial states.                                                         *)
(***************************************************************************)
\* the pipeline of test_solution, about to call lex(input)
Init ==
    /\ input \in Inputs
    /\ lines = <<>>
    /\ command = <<>>
    /\ output = <<>>
    /\ commands = <<>>
    /\ lex_result = "pending"
    /\ cmds = <<>>
    /\ entries = <<>>
    /\ root_context = 0
    /\ current_context = 0
    /\ depth = 0
    /\ entries_at_depth = EmptyMap
    /\ ls_output = <<>>
    /\ build_result = "pending"
    /\ query = NoQuery
    /\ pc = "lex"

\* build_fs called on a command sequence
InitBuild ==
    /\ input = <<>>
    /\ lines = <<>>
    /\ command = <<>>
    /\ output = <<>>
    /\ commands \in CmdSeqs
    /\ lex_result = "Ok"
    /\ cmds = commands
    /\ entries = <<>>
    /\ root_context = 0
    /\ current_context = 0
    /\ depth = 0
    /\ entries_at_depth = EmptyMap
    /\ ls_output = <<>>
    /\ build_result = "pending"
    /\ query = NoQuery
    /\ pc = "build_root"

(***************************************************************************)
(* fn lex                                                                  *)
(***************************************************************************)
\* lines 141-152: split the input into lines, allocate `commands`
LexSplit ==
    /\ pc = "lex"
    /\ lines' = split(input, NEWLINE)
    /\ commands' = <<>>
    /\ pc' = "lex_outer"
    /\ UNCHANGED <<input, command, output, lex_result, query>>
    /\ UNCHANGED buildVars

\* lines 155-158: `while let Some(command) = lines.pop_front()`
LexPop ==
    /\ pc = "lex_outer"
    /\ lines # <<>>
    /\ command' = Head(lines)
    /\ lines' = Tail(lines)
    /\ output' = <<>>
    /\ pc' = "lex_inner"
    /\ UNCHANGED <<input, commands, lex_result, query>>
    /\ UNCHANGED buildVars

\* LexOutput that puts the line at the front of `output`
LexOutput_front ==
    /\ pc = "lex_inner"
    /\ lines # <<>>
    /\ ~starts_with(Head(lines), CMD_DELIMITER)
    /\ output' = <<Head(lines)>> \o output
    /\ lines' = Tail(lines)
    /\ UNCHANGED <<input, command, commands, lex_result, query, pc>>
    /\ UNCHANGED buildVars

\* lines 161-168: the front line is not a command, move it to `output`
LexOutput ==
    /\ pc = "lex_inner"
    /\ lines # <<>>
    /\ ~starts_with(Head(lines), CMD_DELIMITER)
    /\ output' = Append(output, Head(lines))
    /\ lines' = Tail(lines)
    /\ UNCHANGED <<input, command, commands, lex_result, query, pc>>
    /\ UNCHANGED buildVars

\* lines 161-165, 170-173: the inner loop ends, `command.try_into()?`
LexPush ==
    /\ pc = "lex_inner"
    /\ IF lines = <<>> THEN TRUE ELSE starts_with(Head(lines), CMD_DELIMITER)
    /\ LET kind == try_from(command)
       IN  IF kind.ok
           THEN /\ commands' = Append(commands, Command(kind.val, output))
                /\ pc' = "lex_outer"
                /\ UNCHANGED lex_result
           ELSE /\ lex_result' = kind.err
                /\ pc' = "done"
                /\ UNCHANGED commands
    /\ UNCHANGED <<input, lines, command, output, query>>
    /\ UNCHANGED buildVars

\* line 176: Ok(commands); test_solution hands the value to build_fs
LexReturn ==
    /\ pc = "lex_outer"
    /\ lines = <<>>
    /\ lex_result' = "Ok"
    /\ cmds' = commands
    /\ pc' = "build_root"
    /\ UNCHANGED <<input, lines, command, output, commands, query>>
    /\ UNCHANGED <<entries, root_context, current_context, depth,
                   entries_at_depth, ls_output, build_result>>

(***************************************************************************)
(* fn build_fs                                                             *)
(***************************************************************************)
\* BuildRoot that takes any first command as the root, not only a `cd`
BuildRoot_any_first ==
    /\ pc = "build_root"
    /\ cmds' = IF cmds = <<>> THEN cmds ELSE Tail(cmds)
    /\ IF cmds # <<>>
       THEN /\ entries' = <<FSEntry_new(Head(cmds).kind.arg,
                                        Some(<<>>), None)>>
            /\ root_context' = 1
            /\ current_context' = 1
            /\ depth' = 0
            /\ entries_at_depth' = insert(EmptyMap, 0, 1)
            /\ pc' = "build_loop"
            /\ UNCHANGED build_result
       ELSE /\ build_result' = "First command is not 'cd'"
            /\ pc' = "done"
            /\ UNCHANGED <<entries, root_context, current_context, depth,
                           entries_at_depth>>
    /\ UNCHANGED <<ls_output, query>>
    /\ UNCHANGED lexVars

\* lines 187-201: the root entry, `current_context`, `depth` and the map
BuildRoot ==
    /\ pc = "build_root"
    /\ cmds' = IF cmds = <<>> THEN cmds ELSE Tail(cmds)
    /\ IF cmds # <<>> /\ Head(cmds).kind.tag = "Cd"
       THEN /\ entries' = <<FSEntry_new(Head(cmds).kind.arg,
                                        Some(<<>>), None)>>
            /\ root_context' = 1
            /\ current_context' = 1
            /\ depth' = 0
            /\ entries_at_depth' = insert(EmptyMap, 0, 1)
            /\ pc' = "build_loop"
            /\ UNCHANGED build_result
       ELSE /\ build_result' = "First command is not 'cd'"
            /\ pc' = "done"
            /\ UNCHANGED <<entries, root_context, current_context, depth,
                           entries_at_depth>>
    /\ UNCHANGED <<ls_output, query>>
    /\ UNCHANGED lexVars

\* BuildCdParent that stays at the root on `cd ..` at depth 0 and goes on
BuildCdParent_stay_at_root ==
    /\ pc = "build_loop"
    /\ cmds # <<>>
    /\ Head(cmds).kind.tag = "Cd"
    /\ Head(cmds).kind.arg = PARENT_DIR
    /\ cmds' = Tail(cmds)
    /\ IF depth = 0
       THEN UNCHANGED <<build_result, pc, depth, current_context>>
       ELSE /\ depth' = depth - 1
            /\ LET got == get(entries_at_depth, depth - 1)
               IN  IF is_some(got)
                   THEN /\ current_context' = unwrap(got)
                        /\ UNCHANGED <<build_result, pc>>
                   ELSE /\ build_result' = "Failed to get entry at depth"
                        /\ pc' = "done"
                        /\ UNCHANGED current_context
    /\ UNCHANGED <<entries, root_context, entries_at_depth, ls_output, query>>
    /\ UNCHANGED lexVars

\* BuildCdParent that reads the map before it decrements depth
BuildCdParent_stale_depth ==
    /\ pc = "build_loop"
    /\ cmds # <<>>
    /\ Head(cmds).kind.tag = "Cd"
    /\ Head(cmds).kind.arg = PARENT_DIR
    /\ cmds' = Tail(cmds)
    /\ IF depth = 0
       THEN /\ build_result' = "Attempted to move up from root directory"
            /\ pc' = "done"
            /\ UNCHANGED <<depth, current_context>>
       ELSE /\ depth' = depth - 1
            /\ LET got == get(entries_at_depth, depth)
               IN  IF is_some(got)
                   THEN /\ current_context' = unwrap(got)
                        /\ UNCHANGED <<build_result, pc>>
                   ELSE /\ build_result' = "Failed to get entry at depth"
                        /\ pc' = "done"
                        /\ UNCHANGED current_context
    /\ UNCHANGED <<entries, root_context, entries_at_depth, ls_output, query>>
    /\ UNCHANGED lexVars

\* lines 204-219: the next command is `cd ..`
BuildCdParent ==
    /\ pc = "build_loop"
    /\ cmds # <<>>
    /\ Head(cmds).kind.tag = "Cd"
    /\ Head(cmds).kind.arg = PARENT_DIR
    /\ cmds' = Tail(cmds)
    /\ IF depth = 0
       THEN /\ build_result' = "Attempted to move up from root directory"
            /\ pc' = "done"
            /\ UNCHANGED <<depth, current_context>>
       ELSE /\ depth' = depth - 1
            /\ LET got == get(entries_at_depth, depth - 1)
               IN  IF is_some(got)
                   THEN /\ current_context' = unwrap(got)
                        /\ UNCHANGED <<build_result, pc>>
                   ELSE /\ build_result' = "Failed to get entry at depth"
                        /\ pc' = "done"
                        /\ UNCHANGED current_context
    /\ UNCHANGED <<entries, root_context, entries_at_depth, ls_output, query>>
    /\ UNCHANGED lexVars

\* BuildCdChild that pushes the new entry onto the children list twice
BuildCdChild_push_twice ==
    /\ pc = "build_loop"
    /\ cmds # <<>>
    /\ Head(cmds).kind.tag = "Cd"
    /\ Head(cmds).kind.arg # PARENT_DIR
    /\ cmds' = Tail(cmds)
    /\ LET new_context == Len(entries) + 1
           heap == Append(entries,
                          FSEntry_new(Head(cmds).kind.arg, Some(<<>>), None))
       IN  /\ IF is_some(entries[current_context].children)
              THEN /\ entries' =
                          [heap EXCEPT ![current_context].children =
                               Some(unwrap(@) \o <<new_context, new_context>>)]
                   /\ depth' = depth + 1
                   /\ entries_at_depth' =
                          insert(entries_at_depth, depth + 1, new_context)
              ELSE /\ entries' = heap
                   /\ UNCHANGED <<depth, entries_at_depth>>
           /\ current_context' = new_context
    /\ UNCHANGED <<root_context, ls_output, build_result, query, pc>>
    /\ UNCHANGED lexVars

\* BuildCdChild that enters an existing child directory of that name when
\* there is one, and only otherwise creates an entry
BuildCdChild_reuse ==
    /\ pc = "build_loop"
    /\ cmds # <<>>
    /\ Head(cmds).kind.tag = "Cd"
    /\ Head(cmds).kind.arg # PARENT_DIR
    /\ cmds' = Tail(cmds)
    /\ LET new_context == Len(entries) + 1
           heap == Append(entries,
                          FSEntry_new(Head(cmds).kind.arg, Some(<<>>), None))
           known == IF is_some(entries[current_context].children)
                    THEN SelectSeq(unwrap(entries[current_context].children),
                             LAMBDA c : /\ entries[c].name = Head(cmds).kind.arg
                                        /\ is_some(entries[c].children))
                    ELSE <<>>
       IN  IF known # <<>>
           THEN /\ UNCHANGED entries
                /\ depth' = depth + 1
                /\ entries_at_depth' =
                       insert(entries_at_depth, depth + 1, known[1])
                /\ current_context' = known[1]
           ELSE /\ IF is_some(entries[current_context].children)
                   THEN /\ entries' =
                               [heap EXCEPT ![current_context].children =
                                    Some(Append(unwrap(@), new_context))]
                        /\ depth' = depth + 1
                        /\ entries_at_depth' =
                               insert(entries_at_depth, depth + 1, new_context)
                   ELSE /\ entries' = heap
                        /\ UNCHANGED <<depth, entries_at_depth>>
                /\ current_context' = new_context
    /\ UNCHANGED <<root_context, ls_output, build_result, query, pc>>
    /\ UNCHANGED lexVars

\* BuildCdChild that does not record the new entry in the map
BuildCdChild_no_record ==
    /\ pc = "build_loop"
    /\ cmds # <<>>
    /\ Head(cmds).kind.tag = "Cd"
    /\ Head(cmds).kind.arg # PARENT_DIR
    /\ cmds' = Tail(cmds)
    /\ LET new_context == Len(entries) + 1
           heap == Append(entries,
                          FSEntry_new(Head(cmds).kind.arg, Some(<<>>), None))
       IN  /\ IF is_some(entries[current_context].children)
              THEN /\ entries' =
                          [heap EXCEPT ![current_context].children =
                               Some(Append(unwrap(@), new_context))]
                   /\ depth' = depth + 1
                   /\ UNCHANGED entries_at_depth
              ELSE /\ entries' = heap
                   /\ UNCHANGED <<depth, entries_at_depth>>
           /\ current_context' = new_context
    /\ UNCHANGED <<root_context, ls_output, build_result, query, pc>>
    /\ UNCHANGED lexVars

\* BuildCdChild that creates the new entry without a children vector
BuildCdChild_no_vec ==
    /\ pc = "build_loop"
    /\ cmds # <<>>
    /\ Head(cmds).kind.tag = "Cd"
    /\ Head(cmds).kind.arg # PARENT_DIR
    /\ cmds' = Tail(cmds)
    /\ LET new_context == Len(entries) + 1
           heap == Append(entries,
                          FSEntry_new(Head(cmds).kind.arg, None, None))
       IN  /\ IF is_some(entries[current_context].children)
              THEN /\ entries' =
                          [heap EXCEPT ![current_context].children =
                               Some(Append(unwrap(@), new_context))]
                   /\ depth' = depth + 1
                   /\ entries_at_depth' =
                          insert(entries_at_depth, depth + 1, new_context)
              ELSE /\ entries' = heap
                   /\ UNCHANGED <<depth, entries_at_depth>>
           /\ current_context' = new_context
    /\ UNCHANGED <<root_context, ls_output, build_result, query, pc>>
    /\ UNCHANGED lexVars

\* lines 204-206, 220-236: the next command is `cd <dir_name>`
BuildCdChild ==
    /\ pc = "build_loop"
    /\ cmds # <<>>
    /\ Head(cmds).kind.tag = "Cd"
    /\ Head(cmds).kind.arg # PARENT_DIR
    /\ cmds' = Tail(cmds)
    /\ LET new_context == Len(entries) + 1
           heap == Append(entries,
                          FSEntry_new(Head(cmds).kind.arg, Some(<<>>), None))
       IN  /\ IF is_some(entries[current_context].children)
              THEN /\ entries' =
                          [heap EXCEPT ![current_context].children =
                               Some(Append(unwrap(@), new_context))]
                   /\ depth' = depth + 1
                   /\ entries_at_depth' =
                          insert(entries_at_depth, depth + 1, new_context)
              ELSE /\ entries' = heap
                   /\ UNCHANGED <<depth, entries_at_depth>>
           /\ current_context' = new_context
    /\ UNCHANGED <<root_context, ls_output, build_result, query, pc>>
    /\ UNCHANGED lexVars

\* lines 204-205, 238-240: the next command is `ls`; its output lines are
\* read only when the current position has children
BuildLs ==
    /\ pc = "build_loop"
    /\ cmds # <<>>
    /\ Head(cmds).kind.tag = "Ls"
    /\ cmds' = Tail(cmds)
    /\ IF is_some(entries[current_context].children)
          /\ Head(cmds).output # <<>>
       THEN /\ ls_output' = Head(cmds).output
            /\ pc' = "build_ls"
       ELSE UNCHANGED <<ls_output, pc>>
    /\ UNCHANGED <<entries, root_context, current_context, depth,
                   entries_at_depth, build_result, query>>
    /\ UNCHANGED lexVars

\* BuildLsLine that allocates the child vector for files too
BuildLsLine_vec_for_files ==
    /\ pc = "build_ls"
    /\ ls_output' = Tail(ls_output)
    /\ LET split_ == split_whitespace(Head(ls_output))
       IN  IF Len(split_) < 1
           THEN /\ build_result' =
                       "Failed to parse file size from 'ls' output"
                /\ pc' = "done"
                /\ UNCHANGED entries
           ELSE IF Len(split_) < 2
           THEN /\ build_result' =
                       "Failed to parse file name from 'ls' output"
                /\ pc' = "done"
                /\ UNCHANGED entries
           ELSE LET size_ == parse_usize(split_[1])
                    name == split_[2]
                    child_vec == Some(<<>>)
                    child == Len(entries) + 1
                    heap == Append(entries,
                                   FSEntry_new(name, child_vec, size_))
                IN  /\ entries' =
                           [heap EXCEPT ![current_context].children =
                                Some(Append(unwrap(@), child))]
                    /\ pc' = IF Tail(ls_output) = <<>>
                             THEN "build_loop"
                             ELSE "build_ls"
                    /\ UNCHANGED build_result
    /\ UNCHANGED <<cmds, root_context, current_context, depth,
                   entries_at_depth, query>>
    /\ UNCHANGED lexVars

\* BuildLsLine that skips a line whose name a child already has
BuildLsLine_dedup ==
    /\ pc = "build_ls"
    /\ ls_output' = Tail(ls_output)
    /\ LET split_ == split_whitespace(Head(ls_output))
       IN  IF Len(split_) < 1
           THEN /\ build_result' =
                       "Failed to parse file size from 'ls' output"
                /\ pc' = "done"
                /\ UNCHANGED entries
           ELSE IF Len(split_) < 2
           THEN /\ build_result' =
                       "Failed to parse file name from 'ls' output"
                /\ pc' = "done"
                /\ UNCHANGED entries
           ELSE LET size_ == parse_usize(split_[1])
                    name == split_[2]
                    child_vec == IF is_some(size_) THEN None ELSE Some(<<>>)
                    child == Len(entries) + 1
                    heap == Append(entries,
                                   FSEntry_new(name, child_vec, size_))
                    known == SelectSeq(unwrap(entries[current_context].children),
                                       LAMBDA c : entries[c].name = name)
                IN  /\ entries' =
                           IF known # <<>>
                           THEN entries
                           ELSE [heap EXCEPT ![current_context].children =
                                     Some(Append(unwrap(@), child))]
                    /\ pc' = IF Tail(ls_output) = <<>>
                             THEN "build_loop"
                             ELSE "build_ls"
                    /\ UNCHANGED build_result
    /\ UNCHANGED <<cmds, root_context, current_context, depth,
                   entries_at_depth, query>>
    /\ UNCHANGED lexVars

\* lines 240-263: one round of `for o in command.output`
BuildLsLine ==
    /\ pc = "build_ls"
    /\ ls_output' = Tail(ls_output)
    /\ LET split_ == split_whitespace(Head(ls_output))
       IN  IF Len(split_) < 1
           THEN /\ build_result' =
                       "Failed to parse file size from 'ls' output"
                /\ pc' = "done"
                /\ UNCHANGED entries
           ELSE IF Len(split_) < 2
           THEN /\ build_result' =
                       "Failed to parse file name from 'ls' output"
                /\ pc' = "done"
                /\ UNCHANGED entries
           ELSE LET size_ == parse_usize(split_[1])
                    name == split_[2]
                    child_vec == IF is_some(size_) THEN None ELSE Some(<<>>)
                    child == Len(entries) + 1
                    heap == Append(entries,
                                   FSEntry_new(name, child_vec, size_))
                IN  /\ entries' =
                           [heap EXCEPT ![current_context].children =
                                Some(Append(unwrap(@), child))]
                    /\ pc' = IF Tail(ls_output) = <<>>
                             THEN "build_loop"
                             ELSE "build_ls"
                    /\ UNCHANGED build_result
    /\ UNCHANGED <<cmds, root_context, current_context, depth,
                   entries_at_depth, query>>
    /\ UNCHANGED lexVars

\* lines 204, 269: no command is left, Ok(root_context)
BuildReturn ==
    /\ pc = "build_loop"
    /\ cmds = <<>>
    /\ build_result' = "Ok"
    /\ pc' = "done"
    /\ UNCHANGED <<cmds, entries, root_context, current_context, depth,
                   entries_at_depth, ls_output, query>>
    /\ UNCHANGED lexVars

(***************************************************************************)
(* Size queries on the built tree.                                         *)
(***************************************************************************)
\* QuerySize that stores the computed size in the entry it was asked about
QuerySize_memoized ==
    /\ pc = "done"
    /\ build_result = "Ok"
    /\ \E e \in 1..Len(entries) :
           /\ query' = [fn |-> "size", entry |-> e, value |-> size(e)]
           /\ entries' = [entries EXCEPT ![e].implicit_size = Some(size(e))]
    /\ UNCHANGED pc
    /\ UNCHANGED lexVars
    /\ UNCHANGED <<cmds, root_context, current_context, depth,
                   entries_at_depth, ls_output, build_result>>

QuerySize ==
    /\ pc = "done"
    /\ build_result = "Ok"
    /\ \E e \in 1..Len(entries) :
           query' = [fn |-> "size", entry |-> e, value |-> size(e)]
    /\ UNCHANGED pc
    /\ UNCHANGED lexVars
    /\ UNCHANGED buildVars

QueryPrunable ==
    /\ pc = "done"
    /\ build_result = "Ok"
    /\ \E e \in 1..Len(entries) :
           query' = [fn |-> "prunable_size", entry |-> e,
                     value |-> prunable_size(e)]
    /\ UNCHANGED pc
    /\ UNCHANGED lexVars
    /\ UNCHANGED buildVars

(***************************************************************************)
(* Specifications.                                                         *)
(***************************************************************************)
Next ==
    \/ LexSplit
    \/ LexPop
    \/ LexOutput
    \/ LexPush
    \/ LexReturn
    \/ BuildRoot
    \/ BuildCdParent
    \/ BuildCdChild
    \/ BuildLs
    \/ BuildLsLine
    \/ BuildReturn
    \/ QuerySize
    \/ QueryPrunable

\* lex, then build_fs on its result, then the queries
Spec == Init /\ [][Next]_vars

NextBuild ==
    \/ BuildRoot
    \/ BuildCdParent
    \/ BuildCdChild
    \/ BuildLs
    \/ BuildLsLine
    \/ BuildReturn
    \/ QuerySize
    \/ QueryPrunable

\* build_fs on any command sequence, then the queries
SpecBuild == InitBuild /\ [][NextBuild]_vars

(***************************************************************************)
(* Properties.                                                             *)
(***************************************************************************)
Handles == 1..Len(entries)

is_dir(e) == is_some(entries[e].children)

is_file(e) == is_some(entries[e].implicit_size)

\* the handles in the children list of e (none for a file)
child_set(e) ==
    IF is_dir(e)
    THEN {unwrap(entries[e].children)[i] :
              i \in 1..Len(unwrap(entries[e].children))}
    ELSE {}

\* the proper descendants of e, at any depth
RECURSIVE descendants(_)
descendants(e) ==
    child_set(e) \cup UNION {descendants(c) : c \in child_set(e)}

\* the sum of size(d) over the handles d of a set
RECURSIVE sum_of_sizes(_)
sum_of_sizes(S) ==
    IF S = {}
    THEN 0
    ELSE LET d == CHOOSE x \in S : TRUE
         IN  size(d) + sum_of_sizes(S \ {d})

\* C1: lexing the 23-line puzzle transcript and building from it never
\* fails, and the built root has total size 48381165 and prunable size 95437.
C1_CanonicalScenario ==
    input = trim(PUZZLE_INPUT) =>
        /\ Len(split(input, NEWLINE)) = 23
        /\ lex_result \in {"pending", "Ok"}
        /\ build_result \in {"pending", "Ok"}
        /\ build_result = "Ok" =>
               /\ size(root_context) = 48381165
               /\ prunable_size(root_context) = MAGIC_NUMBER
               /\ query.fn = "size" /\ query.entry = root_context
                      => query.value = 48381165
               /\ query.fn = "prunable_size" /\ query.entry = root_context
                      => query.value = MAGIC_NUMBER

\* the puzzle transcript was lexed and built, and the root was queried
C1_Witness ==
    /\ input = trim(PUZZLE_INPUT)
    /\ lex_result = "Ok"
    /\ build_result = "Ok"
    /\ query = [fn |-> "prunable_size", entry |-> root_context,
                value |-> MAGIC_NUMBER]

\* C2 (as claimed): in a built tree, prunable_size(E) is the sum of size(D)
\* over every directory D that is a proper descendant of E at any depth and
\* has size(D) <= 100000, also when D lies below a directory larger than
\* 100000.
C2_PrunableAllDescendants ==
    build_result = "Ok" =>
        \A e \in Handles :
            prunable_size(e) =
                sum_of_sizes({d \in descendants(e) :
                                  is_dir(d) /\ size(d) <= PRUNE_LIMIT})

\* what the child behind handle d adds to the prunable size of its parent
direct_contribution(d) ==
    IF is_dir(d) /\ size(d) < PRUNE_LIMIT + 1
    THEN size(d) + prunable_size(d)
    ELSE 0

input_lines == split(input, NEWLINE)

\* C4 (as claimed): lexing the empty input (no line, or one blank line)
\* does not fail: lex returns Ok with no command, and the failure comes
\* afterwards, from build_fs on the empty sequence.
C4_EmptyInputLexes ==
    input \in {<<>>, <<NEWLINE>>} =>
        /\ lex_result \in {"pending", "Ok"}
        /\ lex_result = "Ok" => commands = <<>>
        /\ pc = "done" => build_result = "First command is not 'cd'"

\* the input lines that begin with the delimiter, in input order
delimiter_lines ==
    SelectSeq(input_lines, LAMBDA l : starts_with(l, CMD_DELIMITER))

\* C5 (as claimed): when lex succeeds, the commands are, in input order,
\* exactly one per input line that begins with '$', and none comes from a
\* line that does not begin with '$', the first line included.
C5_OneCommandPerDelimiterLine ==
    lex_result = "Ok" =>
        /\ Len(commands) = Len(delimiter_lines)
        /\ \A k \in 1..Len(commands) :
               commands[k].kind = try_from(delimiter_lines[k]).val

\* the number of input lines that the first k commands account for
RECURSIVE consumed(_)
consumed(k) ==
    IF k = 0 THEN 0 ELSE consumed(k - 1) + 1 + Len(commands[k].output)

\* C6: when lex succeeds, the output of each command is the maximal run of
\* lines that follow its command line and do not begin with '$', in input
\* order; every input line is used exactly once, and command line, output,
\* command line, output, ... is the input.
C6_OutputIsFollowingRun ==
    lex_result = "Ok" =>
        /\ consumed(Len(commands)) = Len(input_lines)
        /\ \A k \in 1..Len(commands) :
               LET at == consumed(k - 1) + 1
                   n  == Len(commands[k].output)
               IN  /\ try_from(input_lines[at]).ok
                   /\ commands[k].kind = try_from(input_lines[at]).val
                   /\ commands[k].output = SubSeq(input_lines, at + 1, at + n)
                   /\ \A i \in 1..n :
                          ~starts_with(commands[k].output[i], CMD_DELIMITER)
                   /\ at + n < Len(input_lines) =>
                          starts_with(input_lines[at + n + 1], CMD_DELIMITER)

\* lex succeeded with several commands, one of which holds two or more
\* different output lines
C6_Witness ==
    /\ lex_result = "Ok"
    /\ Len(commands) >= 2
    /\ \E k \in 1..Len(commands) :
           /\ Len(commands[k].output) >= 2
           /\ commands[k].output[1] # commands[k].output[2]

\* the input lines that lex takes as the line of a command: the first
\* line, and every later line that begins with '$'
command_line_indices ==
    {i \in 1..Len(input_lines) :
         i = 1 \/ starts_with(input_lines[i], CMD_DELIMITER)}

\* the line has no second token, a second token other than cd and ls, or
\* the second token cd and no third token
malformed_command(l) ==
    LET tokens == split_whitespace(l)
    IN  \/ Len(tokens) < 2
        \/ tokens[2] # CD /\ tokens[2] # LS
        \/ tokens[2] = CD /\ Len(tokens) < 3

\* the i-th smallest element of a set of numbers
RECURSIVE nth(_, _)
nth(S, i) == IF i = 1 THEN Min(S) ELSE nth(S \ {Min(S)}, i - 1)

root_step_done == lex_result = "Ok" /\ pc \in {"build_loop", "build_ls", "done"}

\* C8: build_fs fails with "First command is not 'cd'" exactly when the
\* command sequence is empty or does not begin with a Cd; when it begins
\* with Cd(name) the root is a directory named name, created with no
\* children and no size, and it is the entry that is returned on success.
C8_InvalidRootIffNoLeadingCd ==
    root_step_done =>
        /\ build_result = "First command is not 'cd'" <=>
               (IF commands = <<>> THEN TRUE ELSE commands[1].kind.tag # "Cd")
        /\ build_result # "First command is not 'cd'" =>
               /\ root_context = 1
               /\ entries[root_context].name = commands[1].kind.arg
               /\ is_some(entries[root_context].children)
               /\ entries[root_context].implicit_size = None
               /\ Len(cmds) = Len(commands) - 1 =>
                      entries = <<FSEntry_new(commands[1].kind.arg,
                                              Some(<<>>), None)>>
               /\ \A e \in Handles : root_context \notin child_set(e)

\* build_fs refused a sequence that begins with an `ls` and goes on
C8_Witness ==
    /\ build_result = "First command is not 'cd'"
    /\ Len(commands) >= 2
    /\ commands[1].kind = Ls
    /\ commands[2].kind.tag = "Cd"
    /\ entries = <<>>

\* C9: a Cd("..") taken from the queue while depth is 0 makes build_fs fail
\* with "Attempted to move up from root directory"; the replay does not go
\* on and the current position does not move.
C9_AscendPastRootFails ==
    [][ ( /\ pc = "build_loop"
          /\ cmds # <<>>
          /\ Head(cmds).kind = Cd(PARENT_DIR)
          /\ depth = 0 )
        => /\ build_result' = "Attempted to move up from root directory"
           /\ pc' = "done"
           /\ current_context' = current_context
           /\ depth' = 0
           /\ entries' = entries ]_vars

\* the replay went down, came back to the root and then failed on `cd ..`
C9_Witness ==
    /\ build_result = "Attempted to move up from root directory"
    /\ depth = 0
    /\ current_context = root_context
    /\ Len(entries) >= 2

\* C10: in every state of the construction and in the finished tree, each
\* entry has exactly one of children and declared size.
C10_FileXorDirectory ==
    \A e \in Handles :
        is_some(entries[e].children) # is_some(entries[e].implicit_size)

\* during the construction the tree holds the root, a directory made by
\* `cd`, a directory listed by `ls` and a file listed by `ls`
C10_Witness ==
    /\ build_result = "pending"
    /\ \E e \in Handles : is_file(e) /\ entries[e].children = None
    /\ \E e \in Handles :
           /\ e # root_context
           /\ entries[e].children = Some(<<>>)
           /\ entries[e].implicit_size = None
    /\ \E e \in Handles : e # root_context /\ child_set(e) # {}

\* the sum of size over the positions from..Len(cs) of a children list
RECURSIVE children_total(_, _)
children_total(cs, from) ==
    IF from > Len(cs)
    THEN 0
    ELSE size(cs[from]) + children_total(cs, from + 1)

\* C11: in a built tree the total size of a file is its declared size, and
\* the total size of a directory is the sum of the total sizes of all its
\* children, each position of the list counted (0 for an empty directory).
C11_TotalSize ==
    build_result = "Ok" =>
        /\ \A e \in Handles :
               /\ is_file(e) => size(e) = unwrap(entries[e].implicit_size)
               /\ ~is_file(e) /\ is_dir(e) =>
                      size(e) = children_total(unwrap(entries[e].children), 1)
               /\ entries[e].children = Some(<<>>) /\ ~is_file(e) =>
                      size(e) = 0
        /\ query.fn = "size" =>
               query.value =
                   IF is_file(query.entry)
                   THEN unwrap(entries[query.entry].implicit_size)
                   ELSE children_total(
                            unwrap(entries[query.entry].children), 1)

\* the size of a directory was queried that holds an empty directory and a
\* directory with a file in it, and the answer is the size of that file
C11_Witness ==
    /\ build_result = "Ok"
    /\ query.fn = "size"
    /\ is_dir(query.entry)
    /\ \E d \in child_set(query.entry) : entries[d].children = Some(<<>>)
    /\ \E d \in child_set(query.entry) :
           /\ is_dir(d)
           /\ \E f \in child_set(d) : is_file(f) /\ size(f) = query.value
    /\ query.value > 0

\* how many positions of the children list of p hold the handle e
occurrences(p, e) ==
    IF is_dir(p)
    THEN Cardinality({i \in 1..Len(unwrap(entries[p].children)) :
                          unwrap(entries[p].children)[i] = e})
    ELSE 0

\* how many positions of all the children lists hold the handle e
RECURSIVE parent_slots(_, _)
parent_slots(e, p) ==
    IF p = 0 THEN 0 ELSE occurrences(p, e) + parent_slots(e, p - 1)

\* the handles reached from the set S in at most n steps down
RECURSIVE reached(_, _)
reached(S, n) ==
    IF n = 0
    THEN S
    ELSE reached(S \cup UNION {child_set(e) : e \in S}, n - 1)

\* C12: in every state of the construction the entries form a tree under
\* the root: the root is in no children list, every other entry is in
\* exactly one children list exactly once, every entry is reached from the
\* root, and no entry is below itself.
C12_EntriesFormTree ==
    root_context # 0 =>
        /\ parent_slots(root_context, Len(entries)) = 0
        /\ \A e \in Handles \ {root_context} :
               parent_slots(e, Len(entries)) = 1
        /\ reached({root_context}, Len(entries)) = Handles
        /\ \A e \in Handles :
               e \notin reached(child_set(e), Len(entries))

\* the map and the current position alias entries of a tree of four or
\* more entries: the current position is also a child and a map slot, and
\* a slot above depth still holds an entry left earlier
C12_Witness ==
    /\ root_context # 0
    /\ Len(entries) >= 4
    /\ current_context # root_context
    /\ entries_at_depth[depth] = current_context
    /\ \E p \in Handles : current_context \in child_set(p)
    /\ depth + 1 \in DOMAIN entries_at_depth

\* C13: a size query on a built tree changes no entry (name, children,
\* declared size), so every later call, in any order, answers what the
\* tree gave before the first call.
C13_QueriesDoNotMutate ==
    [][ (pc = "done" /\ build_result = "Ok")
        => /\ entries' = entries
           /\ root_context' = root_context
           /\ query'.fn = "size" => query'.value = size(query'.entry)
           /\ query'.fn = "prunable_size" =>
                  query'.value = prunable_size(query'.entry) ]_vars

\* a directory below the root, with entries in it, was asked for its size
C13_Witness ==
    /\ build_result = "Ok"
    /\ query.fn = "size"
    /\ query.entry # root_context
    /\ child_set(query.entry) # {}
    /\ query.value = PRUNE_LIMIT + 1

\* C15: taking Cd(name), name other than "..", from the queue creates a
\* fresh directory named name without children or size, appends it as the
\* last child of the current position, adds 1 to depth, records the entry at
\* the new depth and makes it the current position, also when the current
\* position already has a child of that name; no other entry changes.
C15_CdCreatesFreshChild ==
    [][ ( /\ pc = "build_loop"
          /\ cmds # <<>>
          /\ Head(cmds).kind.tag = "Cd"
          /\ Head(cmds).kind.arg # PARENT_DIR )
        => LET fresh == Len(entries) + 1
           IN  /\ is_dir(current_context)
               /\ Len(entries') = fresh
               /\ entries'[fresh] =
                      FSEntry_new(Head(cmds).kind.arg, Some(<<>>), None)
               /\ entries'[current_context] =
                      [entries[current_context] EXCEPT !.children =
                           Some(Append(unwrap(@), fresh))]
               /\ \A e \in Handles \ {current_context} :
                      entries'[e] = entries[e]
               /\ depth' = depth + 1
               /\ entries_at_depth'[depth + 1] = fresh
               /\ \A k \in DOMAIN entries_at_depth \ {depth + 1} :
                      entries_at_depth'[k] = entries_at_depth[k]
               /\ current_context' = fresh
               /\ build_result' = "pending"
               /\ pc' = "build_loop" ]_vars

\* the current position was created by a `cd` as the last child of a
\* directory that already held a directory of the same name
C15_Witness ==
    /\ root_context # 0
    /\ current_context # root_context
    /\ entries[current_context].children = Some(<<>>)
    /\ entries_at_depth[depth] = current_context
    /\ \E p \in Handles :
           /\ is_dir(p)
           /\ LET cs == unwrap(entries[p].children)
              IN  /\ Len(cs) >= 2
                  /\ cs[Len(cs)] = current_context
                  /\ \E i \in 1..(Len(cs) - 1) :
                         /\ entries[cs[i]].name = entries[current_context].name
                         /\ is_dir(cs[i])

\* C16: taking Cd("..") at depth d > 0 sets depth to d - 1 and the current
\* position to the entry recorded at d - 1, which is the directory whose
\* children list holds the previous current position; it adds no entry and
\* changes no children list, also when map slots were overwritten before.
C16_CdParentRestoresParent ==
    [][ ( /\ pc = "build_loop"
          /\ cmds # <<>>
          /\ Head(cmds).kind = Cd(PARENT_DIR)
          /\ depth > 0 )
        => /\ depth' = depth - 1
           /\ depth - 1 \in DOMAIN entries_at_depth
           /\ current_context' = entries_at_depth[depth - 1]
           /\ current_context \in child_set(current_context')
           /\ entries' = entries
           /\ entries_at_depth' = entries_at_depth
           /\ build_result' = "pending"
           /\ pc' = "build_loop" ]_vars

\* down into a, up, down into a second a (slot 1 of the map overwritten)
\* and up again: the replay is back at the root
C16_Witness ==
    /\ pc = "build_loop"
    /\ Len(commands) >= 5
    /\ Len(cmds) = Len(commands) - 5
    /\ commands[2].kind = Cd(<<"a">>)
    /\ commands[3].kind = Cd(PARENT_DIR)
    /\ commands[4].kind = Cd(<<"a">>)
    /\ commands[5].kind = Cd(PARENT_DIR)
    /\ depth = 0
    /\ current_context = root_context
    /\ entries_at_depth[1] = 3
    /\ unwrap(entries[root_context].children) = <<2, 3>>

\* the entry that an `ls` output line of two or more tokens stands for
listed_entry(o) ==
    LET tokens == split_whitespace(o)
    IN  IF is_some(parse_usize(tokens[1]))
        THEN FSEntry_new(tokens[2], None, parse_usize(tokens[1]))
        ELSE FSEntry_new(tokens[2], Some(<<>>), None)

\* the number of commands that build_fs has taken from the queue
taken == Len(commands) - Len(cmds)

\* the last command taken is an Ls whose output lines all have two or more
\* tokens
well_formed_ls ==
    /\ root_context # 0
    /\ taken >= 2
    /\ commands[taken].kind = Ls
    /\ \A i \in 1..Len(commands[taken].output) :
           Len(split_whitespace(commands[taken].output[i])) >= 2

\* the output lines of the last command that the loop has gone through
lines_done == Len(commands[taken].output) - Len(ls_output)

\* C17: an Ls whose n output lines all have two or more tokens appends n
\* new children to the current position, in line order and after the
\* children it had, without looking for duplicates: a file of the parsed
\* size when the first token is a number, a directory without children
\* otherwise, named by the second token.  Depth, the current position, the
\* map and all other entries stay as they were.
C17_LsAppendsEveryLine ==
    /\ [](well_formed_ls =>
            /\ is_dir(current_context)
            /\ LET cs == unwrap(entries[current_context].children)
               IN  /\ Len(cs) >= lines_done
                   /\ \A i \in 1..lines_done :
                          /\ cs[Len(cs) - lines_done + i] =
                                 Len(entries) - lines_done + i
                          /\ entries[cs[Len(cs) - lines_done + i]] =
                                 listed_entry(commands[taken].output[i])
            /\ pc # "build_ls" => lines_done = Len(commands[taken].output))
    /\ [][ (pc = "build_ls"
               /\ Len(split_whitespace(Head(ls_output))) >= 2)
           => /\ Len(entries') = Len(entries) + 1
              /\ entries'[current_context] =
                     [entries[current_context] EXCEPT !.children =
                          Some(Append(unwrap(@), Len(entries) + 1))]
              /\ \A e \in Handles \ {current_context} :
                     entries'[e] = entries[e]
              /\ build_result' = "pending"
              /\ UNCHANGED <<depth, current_context, entries_at_depth,
                             cmds>> ]_vars
    /\ [][ (pc = "build_loop" /\ cmds # <<>> /\ Head(cmds).kind = Ls)
           => UNCHANGED <<entries, depth, current_context,
                          entries_at_depth>> ]_vars

\* the same two lines were listed twice in a directory, which now has a
\* placeholder directory and a file of size 1, each of them twice
C17_Witness ==
    /\ well_formed_ls
    /\ pc = "build_loop"
    /\ LET cs == unwrap(entries[current_context].children)
       IN  /\ Len(cs) = 4
           /\ entries[cs[1]] = FSEntry_new(<<"a">>, Some(<<>>), None)
           /\ entries[cs[2]] = FSEntry_new(<<"f">>, None, Some(1))
           /\ entries[cs[3]] = entries[cs[1]]
           /\ entries[cs[4]] = entries[cs[2]]

\* C18 (as claimed): build_fs fails, on the size or on the name of the
\* line, whenever an Ls carries an output line that does not split into
\* exactly two tokens: a blank line, a line of one token, a line of three
\* or more tokens.  So it never returns Ok for such a sequence.
C18_LsLineNeedsTwoTokens ==
    /\ build_result = "Ok" =>
           \A k \in 1..Len(commands) :
               commands[k].kind = Ls =>
                   \A i \in 1..Len(commands[k].output) :
                       Len(split_whitespace(commands[k].output[i])) = 2
    /\ (pc = "done" /\ lex_result = "Ok" /\ well_formed_ls
           /\ \E i \in 1..Len(commands[taken].output) :
                  Len(split_whitespace(commands[taken].output[i])) > 2)
       => build_result \in {"Failed to parse file size from 'ls' output",
                            "Failed to parse file name from 'ls' output"}

\* C19: after the root is made and after every command, the map has a slot
\* for each level 0..depth, slot 0 is the root, slot depth is the current
\* position and slot k is a child of slot k - 1 (slots above depth may be
\* stale); the lookup of `cd ..` never fails.
C19_MapIsPathToCurrent ==
    /\ build_result # "Failed to get entry at depth"
    /\ root_context # 0 =>
           /\ \A k \in 0..depth : k \in DOMAIN entries_at_depth
           /\ entries_at_depth[0] = root_context
           /\ entries_at_depth[depth] = current_context
           /\ \A k \in 1..depth :
                  entries_at_depth[k] \in child_set(entries_at_depth[k - 1])

\* the replay came up from depth 2 to depth 1: slot 2 is stale, slots 0 and
\* 1 are the path from the root to the current position
C19_Witness ==
    /\ root_context # 0
    /\ build_result = "pending"
    /\ depth = 1
    /\ 2 \in DOMAIN entries_at_depth
    /\ entries_at_depth[2] # current_context
    /\ entries_at_depth[1] = current_context
    /\ current_context \in child_set(root_context)

\* C20: in every state of the replay the current position is a directory,
\* whatever the commands; so an Ls always hands its output lines to the
\* loop and a Cd into a name always appends its entry and adds 1 to depth:
\* the branch that skips them is never taken.
C20_CurrentIsDirectory ==
    /\ [](root_context # 0 => is_dir(current_context))
    /\ [][ (pc = "build_loop" /\ cmds # <<>> /\ Head(cmds).kind = Ls)
           => ls_output' = Head(cmds).output ]_vars
    /\ [][ ( /\ pc = "build_loop"
             /\ cmds # <<>>
             /\ Head(cmds).kind.tag = "Cd"
             /\ Head(cmds).kind.arg # PARENT_DIR )
           => /\ depth' = depth + 1
              /\ unwrap(entries'[current_context].children) =
                     Append(unwrap(entries[current_context].children),
                            Len(entries) + 1) ]_vars

\* the current position is a directory at depth 2, entered from a
\* directory in which files had been listed
C20_Witness ==
    /\ root_context # 0
    /\ depth = 2
    /\ is_dir(current_context)
    /\ ~is_file(current_context)
    /\ \E p \in Handles :
           /\ current_context \in child_set(p)
           /\ \E f \in child_set(p) : is_file(f) /\ ~is_dir(f)

====
